---- MODULE Spec2Model ----
(***************************************************************************)
(* Model of the quote-api service (src/main.go): the main function that    *)
(* registers quoteHandler on "/", announces itself and serves on :8080,    *)
(* and quoteHandler, which reseeds the global math/rand source from the    *)
(* clock, draws an index into its catalog literal, sets the Content-Type   *)
(* header and writes the body with one fmt.Fprintf call.                   *)
(*                                                                         *)
(* Text is modelled as sequences of one-character strings, so that         *)
(* formatting and JSON parsing are computed character by character.        *)
(***************************************************************************)
EXTENDS Integers, Sequences, FiniteSets, TLC

\* Number of connections the server handles concurrently (one goroutine each).
MaxConn == 2

\* Largest reading of the clock (time.Now().UnixNano()) that is explored.
MaxTime == 1

\* The TCP port of http.ListenAndServe(":8080", nil).
ListenPort == 8080

Conns == 1..MaxConn

(***************************************************************************)
(* The catalog literal of quoteHandler.                                    *)
(***************************************************************************)
\* "The only way to do great work is to love what you do. - Steve Jobs"
Quote1 ==
    <<
       "T", "h", "e", " ", "o", "n", "l", "y", " ", "w", "a", "y", " ", "t", "o", " ",
       "d", "o", " ", "g", "r", "e", "a", "t", " ", "w", "o", "r", "k", " ", "i", "s",
       " ", "t", "o", " ", "l", "o", "v", "e", " ", "w", "h", "a", "t", " ", "y", "o",
       "u", " ", "d", "o", ".", " ", "-", " ", "S", "t", "e", "v", "e", " ", "J", "o",
       "b", "s" >>

\* "The future belongs to those who believe in the beauty of their dreams. - Eleanor Roosevelt"
Quote2 ==
    <<
       "T", "h", "e", " ", "f", "u", "t", "u", "r", "e", " ", "b", "e", "l", "o", "n",
       "g", "s", " ", "t", "o", " ", "t", "h", "o", "s", "e", " ", "w", "h", "o", " ",
       "b", "e", "l", "i", "e", "v", "e", " ", "i", "n", " ", "t", "h", "e", " ", "b",
       "e", "a", "u", "t", "y", " ", "o", "f", " ", "t", "h", "e", "i", "r", " ", "d",
       "r", "e", "a", "m", "s", ".", " ", "-", " ", "E", "l", "e", "a", "n", "o", "r",
       " ", "R", "o", "o", "s", "e", "v", "e", "l", "t" >>

\* "It does not matter how slowly you go as long as you do not stop. - Confucius"
Quote3 ==
    <<
       "I", "t", " ", "d", "o", "e", "s", " ", "n", "o", "t", " ", "m", "a", "t", "t",
       "e", "r", " ", "h", "o", "w", " ", "s", "l", "o", "w", "l", "y", " ", "y", "o",
       "u", " ", "g", "o", " ", "a", "s", " ", "l", "o", "n", "g", " ", "a", "s", " ",
       "y", "o", "u", " ", "d", "o", " ", "n", "o", "t", " ", "s", "t", "o", "p", ".",
       " ", "-", " ", "C", "o", "n", "f", "u", "c", "i", "u", "s" >>

\* "Success is not final, failure is not fatal: it is the courage to continue that counts. - Winston Churchill"
Quote4 ==
    <<
       "S", "u", "c", "c", "e", "s", "s", " ", "i", "s", " ", "n", "o", "t", " ", "f",
       "i", "n", "a", "l", ",", " ", "f", "a", "i", "l", "u", "r", "e", " ", "i", "s",
       " ", "n", "o", "t", " ", "f", "a", "t", "a", "l", ":", " ", "i", "t", " ", "i",
       "s", " ", "t", "h", "e", " ", "c", "o", "u", "r", "a", "g", "e", " ", "t", "o",
       " ", "c", "o", "n", "t", "i", "n", "u", "e", " ", "t", "h", "a", "t", " ", "c",
       "o", "u", "n", "t", "s", ".", " ", "-", " ", "W", "i", "n", "s", "t", "o", "n",
       " ", "C", "h", "u", "r", "c", "h", "i", "l", "l" >>

\* "Believe you can and you're halfway there. - Theodore Roosevelt"
Quote5 ==
    <<
       "B", "e", "l", "i", "e", "v", "e", " ", "y", "o", "u", " ", "c", "a", "n", " ",
       "a", "n", "d", " ", "y", "o", "u", "'", "r", "e", " ", "h", "a", "l", "f", "w",
       "a", "y", " ", "t", "h", "e", "r", "e", ".", " ", "-", " ", "T", "h", "e", "o",
       "d", "o", "r", "e", " ", "R", "o", "o", "s", "e", "v", "e", "l", "t" >>

Quotes == << Quote1, Quote2, Quote3, Quote4, Quote5 >>

Range(s) == { s[k] : k \in DOMAIN s }

(***************************************************************************)
(* fmt.Fprintf(w, `{"quote": "%s"}`, randomQuote): the format literal and   *)
(* the expansion of its %s verb, which copies the argument byte for byte.  *)
(***************************************************************************)

\* The format with the quotation marks around the verb left out.
QuoteFormatBare ==
    << "{", "\"", "q", "u", "o", "t", "e", "\"", ":", " ", "%", "s", "}" >>

QuoteFormat ==
    << "{", "\"", "q", "u", "o", "t", "e", "\"", ":", " ", "\"", "%", "s", "\"", "}" >>

RECURSIVE Sprintf(_, _)
Sprintf(f, arg) ==
    IF f = << >> THEN << >>
    ELSE IF Len(f) >= 2 /\ f[1] = "%" /\ f[2] = "s"
         THEN arg \o Sprintf(SubSeq(f, 3, Len(f)), arg)
         ELSE << f[1] >> \o Sprintf(Tail(f), arg)

(***************************************************************************)
(* A JSON reader for the documents the service can emit: an object whose   *)
(* members have string values.  It is the client's view of the body.       *)
(***************************************************************************)
JsonWs == { " ", "\t", "\n", "\r" }

\* Characters that may not appear raw inside a JSON string.
JsonControl == { "\t", "\n", "\r", "\f" }

\* The single-character escapes of JSON and the character each stands for.
JsonEscapes == { "\"", "\\", "/", "n", "t", "r", "f" }

Unescape(c) ==
    CASE c = "n" -> "\n"
      [] c = "t" -> "\t"
      [] c = "r" -> "\r"
      [] c = "f" -> "\f"
      [] OTHER -> c

JsonFail == [ok |-> FALSE, val |-> << >>, next |-> 0]

RECURSIVE SkipWs(_, _)
SkipWs(b, i) ==
    IF i <= Len(b) /\ b[i] \in JsonWs THEN SkipWs(b, i + 1) ELSE i

SetMax(S) == CHOOSE x \in S : \A y \in S : y <= x

SetMin(S) == CHOOSE x \in S : \A y \in S : x <= y

\* Position k of a string that starts at i follows an odd run of backslashes:
\* the character at k is the second half of an escape.
Escaped(b, i, k) ==
    /\ k > i
    /\ b[k - 1] = "\\"
    /\ LET stops == { m \in i..(k - 1) : b[m] # "\\" }
           last == IF stops = {} THEN i - 1 ELSE SetMax(stops)
       IN (k - 1 - last) % 2 = 1

\* The backslash at k opens an escape.
OpensEscape(b, i, k) == b[k] = "\\" /\ ~Escaped(b, i, k)

\* The JSON string whose opening quotation mark is at position i: it ends at
\* the first quotation mark that is not escaped; it may hold no raw control
\* character and only the single-character escapes; val is its text with the
\* escapes undone.
ParseString(b, i) ==
    IF ~(i <= Len(b) /\ b[i] = "\"") THEN JsonFail
    ELSE LET closers == { k \in (i + 1)..Len(b) :
                             b[k] = "\"" /\ ~Escaped(b, i + 1, k) }
         IN IF closers = {} THEN JsonFail
            ELSE LET close == SetMin(closers)
                     inside == (i + 1)..(close - 1)
                     wellFormed ==
                         \A k \in inside :
                             /\ b[k] \notin JsonControl
                             /\ OpensEscape(b, i + 1, k) =>
                                    k + 1 < close /\ b[k + 1] \in JsonEscapes
                     kept == SelectSeq([n \in 1..(close - 1 - i) |-> i + n],
                                       LAMBDA k : ~OpensEscape(b, i + 1, k))
                 IN IF ~wellFormed THEN JsonFail
                    ELSE [ok |-> TRUE,
                          val |-> [n \in 1..Len(kept) |->
                                      IF Escaped(b, i + 1, kept[n])
                                      THEN Unescape(b[kept[n]])
                                      ELSE b[kept[n]]],
                          next |-> close + 1]

ObjFail == [ok |-> FALSE, keys |-> << >>, vals |-> << >>]

\* The members of an object from position i (at a key) to the closing brace;
\* nothing but white space may follow the brace.
RECURSIVE Members(_, _, _, _)
Members(b, i, keys, vals) ==
    LET k == ParseString(b, i) IN
    IF ~k.ok THEN ObjFail
    ELSE LET c == SkipWs(b, k.next) IN
         IF ~(c <= Len(b) /\ b[c] = ":") THEN ObjFail
         ELSE LET v == ParseString(b, SkipWs(b, c + 1)) IN
              IF ~v.ok THEN ObjFail
              ELSE LET e == SkipWs(b, v.next) IN
                   IF e > Len(b) THEN ObjFail
                   ELSE IF b[e] = ","
                        THEN Members(b, SkipWs(b, e + 1),
                                     Append(keys, k.val), Append(vals, v.val))
                   ELSE IF b[e] = "}" /\ SkipWs(b, e + 1) > Len(b)
                        THEN [ok |-> TRUE, keys |-> Append(keys, k.val),
                              vals |-> Append(vals, v.val)]
                   ELSE ObjFail

ParseObject(b) ==
    LET o == SkipWs(b, 1) IN
    IF ~(o <= Len(b) /\ b[o] = "{") THEN ObjFail
    ELSE LET m == SkipWs(b, o + 1) IN
         IF m <= Len(b) /\ b[m] = "}"
         THEN IF SkipWs(b, m + 1) > Len(b)
              THEN [ok |-> TRUE, keys |-> << >>, vals |-> << >>]
              ELSE ObjFail
         ELSE Members(b, m, << >>, << >>)

QuoteKey == << "q", "u", "o", "t", "e" >>

\* The body is a JSON object with exactly one key, quote, and value q.
IsQuoteObject(b, q) ==
    LET o == ParseObject(b) IN
    o.ok /\ o.keys = << QuoteKey >> /\ o.vals = << q >>

(***************************************************************************)
(* The global source of math/rand, as the handler uses it: rand.Seed puts  *)
(* the source in the state its argument determines, rand.Intn(n) advances   *)
(* the source by one draw and reduces the drawn value to [0, n).  The      *)
(* generator is a small linear congruential one: what matters here is that *)
(* a draw is a function of the state of the source and of nothing else.    *)
(***************************************************************************)

\* Number of states of the generator.
RngSize == 7

SeedState(seed) == seed % RngSize

Advance(s) == (6 * s + 5) % RngSize

\* A reduction to [0, n] instead of [0, n).
IntnInclusive(s, n) == s % (n + 1)

Intn(s, n) == s % n

(***************************************************************************)
(* Requests.  quoteHandler receives the request r and never reads it.      *)
(***************************************************************************)
Requests ==
    { [method |-> "GET", path |-> << "/" >>, body |-> << >>],
      [method |-> "POST", path |-> << "/", "q" >>, body |-> << "x" >>] }

NoRequest == [method |-> "", path |-> << >>, body |-> << >>]

\* http.ResponseWriter of a request before the handler has touched it.
NewWriter == [status |-> 0, header |-> {}, body |-> << >>]

\* Header().Set(key, value): the value replaces any earlier one of the key.
HeaderSet(h, key, value) == { e \in h : e[1] # key } \cup { << key, value >> }

\* The pattern registered by http.HandleFunc("/", quoteHandler).
RootPattern == << "/" >>

\* net/http's ServeMux: a pattern ending in a slash names a subtree.
PatternMatches(p, path) ==
    IF p # << >> /\ p[Len(p)] = "/"
    THEN Len(path) >= Len(p) /\ SubSeq(path, 1, Len(p)) = p
    ELSE path = p

VARIABLES
    phase,        \* where main is: start, registered, announced, serving, exited, killed
    mux,          \* patterns registered on the default ServeMux
    stdout,       \* lines printed
    boundPort,    \* the port the listener is bound to, 0 when there is none
    quotes,       \* the catalog the handler builds on every call
    now,          \* the clock
    rng,          \* state of the global random source; NoValue until the program
                  \* seeds it (the runtime's own seeding is never drawn from)
    rngLock,      \* the connection holding the source's mutex, 0 when free
    pc,           \* per connection: the handler's position
    req,          \* per connection: the request being handled
    seedArg,      \* per connection: the clock reading passed to rand.Seed
    src,          \* per connection: the state of the source its draw was made from
    randomQuote,  \* per connection: the handler's local randomQuote
    w             \* per connection: the response written so far

vars == << phase, mux, stdout, boundPort, quotes, now, rng, rngLock,
           pc, req, seedArg, src, randomQuote, w >>

mainVars == << phase, mux, stdout, boundPort >>

connVars == << pc, req, seedArg, src, randomQuote, w >>

NoValue == -1

InitProcess ==
    /\ phase = "start"
    /\ mux = {}
    /\ stdout = << >>
    /\ boundPort = 0
    /\ now = 0
    /\ rng = NoValue
    /\ rngLock = 0
    /\ pc = [i \in Conns |-> "idle"]
    /\ req = [i \in Conns |-> NoRequest]
    /\ seedArg = [i \in Conns |-> NoValue]
    /\ src = [i \in Conns |-> NoValue]
    /\ randomQuote = [i \in Conns |-> << >>]
    /\ w = [i \in Conns |-> NewWriter]

Init == InitProcess /\ quotes = Quotes

(***************************************************************************)
(* main                                                                    *)
(***************************************************************************)

\* http.HandleFunc("/", quoteHandler)
Register ==
    /\ phase = "start"
    /\ mux' = mux \cup { RootPattern }
    /\ phase' = "registered"
    /\ UNCHANGED << stdout, boundPort, quotes, now, rng, rngLock, connVars >>

\* fmt.Println("Starting Quote API server on port 8080...")
Announce ==
    /\ phase = "registered"
    /\ stdout' = Append(stdout, "Starting Quote API server on port 8080...")
    /\ phase' = "announced"
    /\ UNCHANGED << mux, boundPort, quotes, now, rng, rngLock, connVars >>

\* http.ListenAndServe(":8080", nil) binds the port and enters its accept loop.
ListenAndServe ==
    /\ phase = "announced"
    /\ boundPort' = ListenPort
    /\ phase' = "serving"
    /\ UNCHANGED << mux, stdout, quotes, now, rng, rngLock, connVars >>

\* http.ListenAndServe cannot bind (the port is taken): it returns the error,
\* main drops it and returns.
ListenFails ==
    /\ phase = "announced"
    /\ phase' = "exited"
    /\ UNCHANGED << mux, stdout, boundPort, quotes, now, rng, rngLock, connVars >>

\* The process is ended from outside (a signal); main has no handler for it.
\* Its goroutines and its memory end with it.
Terminate ==
    /\ phase \in { "start", "registered", "announced", "serving" }
    /\ phase' = "killed"
    /\ mux' = {}
    /\ boundPort' = 0
    /\ rng' = NoValue
    /\ rngLock' = 0
    /\ pc' = [i \in Conns |-> "idle"]
    /\ req' = [i \in Conns |-> NoRequest]
    /\ seedArg' = [i \in Conns |-> NoValue]
    /\ src' = [i \in Conns |-> NoValue]
    /\ randomQuote' = [i \in Conns |-> << >>]
    /\ w' = [i \in Conns |-> NewWriter]
    /\ UNCHANGED << stdout, quotes, now >>

\* The clock advances while the process runs.
Tick ==
    /\ phase \in { "start", "registered", "announced", "serving" }
    /\ now < MaxTime
    /\ now' = now + 1
    /\ UNCHANGED << mainVars, quotes, rng, rngLock, connVars >>

\* Requests reach handlers before the listener exists.
AcceptingUnbound == phase \in { "announced", "serving" }

\* The accept loop of the server runs on the bound listener.
Accepting == phase = "serving" /\ boundPort # 0

\* Goroutines run while the process does.
Running == phase = "serving"

Routed(path) == \E p \in mux : PatternMatches(p, path)

\* The source's mutex is taken without waiting for it.
AcquireUnguarded(i) == rngLock' = i

\* Lock of the mutex that guards the global source.
Acquire(i) == rngLock = 0 /\ rngLock' = i

(***************************************************************************)
(* quoteHandler, one step per statement; the calls into the random source  *)
(* are two steps each, taking the source's mutex and using the source.     *)
(***************************************************************************)

\* The server hands request r of connection i to the handler registered for it.
Dispatch(i, r) ==
    /\ Accepting
    /\ pc[i] = "idle"
    /\ Routed(r.path)
    /\ pc' = [pc EXCEPT ![i] = "clock"]
    /\ req' = [req EXCEPT ![i] = r]
    /\ w' = [w EXCEPT ![i] = NewWriter]
    /\ UNCHANGED << mainVars, quotes, now, rng, rngLock, seedArg, src, randomQuote >>

\* time.Now().UnixNano()
ReadClock(i) ==
    /\ Running
    /\ pc[i] = "clock"
    /\ seedArg' = [seedArg EXCEPT ![i] = now]
    /\ pc' = [pc EXCEPT ![i] = "seed"]
    /\ UNCHANGED << mainVars, quotes, now, rng, rngLock, req, src, randomQuote, w >>

\* rand.Seed(...): enter
SeedAcquire(i) ==
    /\ Running
    /\ pc[i] = "seed"
    /\ Acquire(i)
    /\ pc' = [pc EXCEPT ![i] = "seeding"]
    /\ UNCHANGED << mainVars, quotes, now, rng, req, seedArg, src, randomQuote, w >>

\* rand.Seed(...): reseed the source and leave
SeedStore(i) ==
    /\ Running
    /\ pc[i] = "seeding"
    /\ rng' = SeedState(seedArg[i])
    /\ rngLock' = 0
    /\ seedArg' = [seedArg EXCEPT ![i] = NoValue]
    /\ pc' = [pc EXCEPT ![i] = "draw"]
    /\ UNCHANGED << mainVars, quotes, now, req, src, randomQuote, w >>

\* rand.Intn(len(quotes)): Intn panics on n <= 0 before it touches the source.
DrawAcquire(i) ==
    /\ Running
    /\ pc[i] = "draw"
    /\ IF Len(quotes) <= 0
       THEN pc' = [pc EXCEPT ![i] = "panicked"] /\ UNCHANGED rngLock
       ELSE Acquire(i) /\ pc' = [pc EXCEPT ![i] = "drawing"]
    /\ UNCHANGED << mainVars, quotes, now, rng, req, seedArg, src, randomQuote, w >>

\* randomQuote := quotes[rand.Intn(len(quotes))]: the draw, then the indexing,
\* which panics when the index is out of range.
DrawIndex(i) ==
    /\ Running
    /\ pc[i] = "drawing"
    /\ LET next == Advance(rng)
           k == Intn(next, Len(quotes))
       IN /\ rng' = next
          /\ rngLock' = 0
          /\ src' = [src EXCEPT ![i] = rng]
          /\ IF k \in 0..(Len(quotes) - 1)
             THEN /\ randomQuote' = [randomQuote EXCEPT ![i] = quotes[k + 1]]
                  /\ pc' = [pc EXCEPT ![i] = "header"]
             ELSE /\ UNCHANGED randomQuote
                  /\ pc' = [pc EXCEPT ![i] = "panicked"]
    /\ UNCHANGED << mainVars, quotes, now, req, seedArg, w >>

\* w.Header().Set("Content-Type", "application/json")
SetHeader(i) ==
    /\ Running
    /\ pc[i] = "header"
    /\ w' = [w EXCEPT ![i].header = HeaderSet(@, "Content-Type", "application/json")]
    /\ pc' = [pc EXCEPT ![i] = "write"]
    /\ UNCHANGED << mainVars, quotes, now, rng, rngLock, req, seedArg, src, randomQuote >>

\* A handler that answers GET only and refuses the other methods with 405.
WriteBodyGetOnly(i) ==
    /\ Running
    /\ pc[i] = "write"
    /\ w' = [w EXCEPT ![i] =
               IF req[i].method = "GET"
               THEN [@ EXCEPT !.status = IF @ = 0 THEN 200 ELSE @,
                              !.body = @ \o Sprintf(QuoteFormat, randomQuote[i])]
               ELSE [@ EXCEPT !.status = 405]]
    /\ pc' = [pc EXCEPT ![i] = "done"]
    /\ UNCHANGED << mainVars, quotes, now, rng, rngLock, req, seedArg, src, randomQuote >>

\* fmt.Fprintf(w, `{"quote": "%s"}`, randomQuote): one Write of the formatted
\* text; the first Write of a response sends status 200 when none was set.
WriteBody(i) ==
    /\ Running
    /\ pc[i] = "write"
    /\ w' = [w EXCEPT ![i] =
               [@ EXCEPT !.status = IF @ = 0 THEN 200 ELSE @,
                         !.body = @ \o Sprintf(QuoteFormat, randomQuote[i])]]
    /\ pc' = [pc EXCEPT ![i] = "done"]
    /\ UNCHANGED << mainVars, quotes, now, rng, rngLock, req, seedArg, src, randomQuote >>

\* The handler has returned, or the server has recovered its panic and closed
\* the connection: the connection's goroutine ends and its locals are gone.
Finish(i) ==
    /\ Running
    /\ pc[i] \in { "done", "panicked" }
    /\ pc' = [pc EXCEPT ![i] = "idle"]
    /\ req' = [req EXCEPT ![i] = NoRequest]
    /\ src' = [src EXCEPT ![i] = NoValue]
    /\ randomQuote' = [randomQuote EXCEPT ![i] = << >>]
    /\ w' = [w EXCEPT ![i] = NewWriter]
    /\ UNCHANGED << mainVars, quotes, now, rng, rngLock, seedArg >>

Next ==
    \/ Register
    \/ Announce
    \/ ListenAndServe
    \/ ListenFails
    \/ Terminate
    \/ Tick
    \/ \E i \in Conns : \E r \in Requests : Dispatch(i, r)
    \/ \E i \in Conns : ReadClock(i)
    \/ \E i \in Conns : SeedAcquire(i)
    \/ \E i \in Conns : SeedStore(i)
    \/ \E i \in Conns : DrawAcquire(i)
    \/ \E i \in Conns : DrawIndex(i)
    \/ \E i \in Conns : SetHeader(i)
    \/ \E i \in Conns : WriteBody(i)
    \/ \E i \in Conns : Finish(i)

Spec == Init /\ [][Next]_vars

(***************************************************************************)
(* The same program with another catalog literal in quoteHandler (the      *)
(* catalog is changed by editing the literal): the empty catalog, plain    *)
(* strings, and strings with characters that JSON requires to be escaped.  *)
(***************************************************************************)
Hello == << "H", "e", "l", "l", "o" >>

World == << "W", "o", "r", "l", "d" >>

\* say "hi"
WithQuotationMark == << "s", "a", "y", " ", "\"", "h", "i", "\"" >>

\* a backslash followed by n, as in a Windows path: C:\new
WithBackslash == << "C", ":", "\\", "n", "e", "w" >>

\* a line break inside the text
WithLineBreak == << "a", "\n", "b" >>

CfgCatalogs ==
    { << >>,
      << Hello, World >>,
      << WithQuotationMark >>,
      << WithBackslash, Hello >>,
      << WithLineBreak >>,
      Quotes }

InitCfg == InitProcess /\ quotes \in CfgCatalogs

SpecCfg == InitCfg /\ [][Next]_vars

(***************************************************************************)
(* Properties                                                              *)
(***************************************************************************)

Done(i) == pc[i] = "done"

\* The connection is inside a call into the random source.
InSource(i) == pc[i] \in { "seeding", "drawing" }

\* C1: every response written by quoteHandler carries Content-Type
\* application/json and a body that is a JSON object with exactly one key,
\* quote, whose value is one of the strings of the catalog.
C1_JsonQuoteResponse ==
    \A i \in Conns :
        Done(i) =>
            /\ << "Content-Type", "application/json" >> \in w[i].header
            /\ LET o == ParseObject(w[i].body)
               IN /\ o.ok
                  /\ o.keys = << QuoteKey >>
                  /\ Len(o.vals) = 1
                  /\ o.vals[1] \in Range(quotes)

\* Two requests have been answered, with different quotes.
C1_Witness ==
    \E i, j \in Conns :
        /\ Done(i) /\ Done(j)
        /\ w[i].body # w[j].body
        /\ ParseObject(w[i].body).ok /\ ParseObject(w[j].body).ok

\* C2: for every catalog string, also one with a character that JSON requires
\* to be escaped, the body is valid JSON and parsing it yields back exactly the
\* chosen string as the value of quote.
C2_EscapedRoundTrip ==
    \A i \in Conns : Done(i) => IsQuoteObject(w[i].body, randomQuote[i])

\* C3: the random source is seeded once at startup, before the first request
\* is handled, and no handler invocation performs a seed.
C3_SeededOnceAtStartup ==
    \A i \in Conns :
        /\ pc[i] # "idle" => rng # NoValue
        /\ pc[i] # "seeding"

\* C4: under every interleaving of concurrent handlers, the random source is
\* used by one handler at a time, under its mutex, and each finished request
\* holds its own complete response: exactly the document made from the quote
\* that its own handler drew.
C4_ConcurrentHandlersIsolated ==
    /\ \A i, j \in Conns : InSource(i) /\ InSource(j) => i = j
    /\ \A i \in Conns : InSource(i) => rngLock = i
    /\ \A i \in Conns :
           Done(i) =>
               /\ w[i].body = Sprintf(QuoteFormat, randomQuote[i])
               /\ randomQuote[i] = quotes[Intn(Advance(src[i]), Len(quotes)) + 1]

\* One handler is inside the source while another waits at its mutex.
C4_Witness ==
    \E i, j \in Conns :
        /\ i # j
        /\ InSource(i)
        /\ pc[j] \in { "seed", "draw" }

C6_RequestIndependent ==
    \A i, j \in Conns :
        Done(i) /\ Done(j) /\ src[i] = src[j] => w[i] = w[j]

\* Two different requests have been answered from the same state of the source.
C6_Witness ==
    \E i, j \in Conns :
        /\ Done(i) /\ Done(j)
        /\ req[i].method # req[j].method
        /\ req[i].path # req[j].path
        /\ req[i].body # req[j].body
        /\ src[i] = src[j]

\* C7: every dispatched request ends with a success status: no handler panics
\* (the drawn index is within the catalog) and a finished response has
\* status 200.
C7_AlwaysSuccess ==
    \A i \in Conns :
        /\ pc[i] # "panicked"
        /\ Done(i) => w[i].status = 200

\* A request has been answered with the last entry of the catalog.
C7_Witness ==
    \E i \in Conns :
        /\ Done(i)
        /\ w[i].status = 200
        /\ randomQuote[i] = quotes[Len(quotes)]

\* C8: handling a request leaves the catalog unchanged and changes the random
\* source by draws only: no step of a handler reseeds it.
C8_OnlyDrawsChangeSource ==
    [][/\ quotes' = quotes
       /\ phase' = "serving" => rng' = rng \/ rng' = Advance(rng)]_vars

\* C9: the process binds port 8080 before it serves, no request is handled
\* before the port is bound, and the serving state is left only when the
\* process is terminated from outside.
C9_Lifecycle ==
    /\ [](\A i \in Conns :
             pc[i] # "idle" => phase = "serving" /\ boundPort = ListenPort)
    /\ [][/\ phase' = "serving" /\ phase # "serving" =>
               phase = "announced" /\ boundPort' = ListenPort
          /\ phase = "serving" => phase' \in { "serving", "killed" }]_vars

\* The process is serving on the bound port and has answered a request.
C9_Witness ==
    /\ phase = "serving"
    /\ boundPort = ListenPort
    /\ stdout # << >>
    /\ \E i \in Conns : Done(i)
====
